---- MODULE Spec2Model ----
(***************************************************************************)
(* A model of src/main.rs: one SharedData record held in                   *)
(* Rc<RefCell<SharedData>>, the Rc handles that own it, the RefCell borrow *)
(* flag and the Ref / RefMut guards taken through the handles.             *)
(*                                                                         *)
(* Two clients drive the same operations.  With pc >= 1 the client is      *)
(* main: it executes MainProgram, the statements of main in order (a       *)
(* statement such as shared_item.borrow().display() is three steps: the    *)
(* borrow, the call, the drop of the temporary guard at the end of the     *)
(* statement).  With pc = 0 the client is any single-threaded caller of    *)
(* the same API: it may clone, borrow, mutate, display and drop in any     *)
(* order the borrow checker accepts, which is what drives two leases into  *)
(* conflict (main never does).                                             *)
(*                                                                         *)
(* Rc and RefCell are the std types imported on lines 1-2; their           *)
(* operations are modelled as std implements them (an allocation holding   *)
(* a strong count and the value, a handle pointing at it; a borrow flag    *)
(* that is 0 when unused, n > 0 with n readers, -1 with a writer) at the   *)
(* lines of main.rs that call them.                                        *)
(***************************************************************************)
EXTENDS Integers, Sequences, FiniteSets, TLC

VARIABLES
    pc,          \* 0: the free client; k >= 1: main is about to run MainProgram[k]
    cells,       \* the Rc allocations made so far, each [strong, borrow, data,
                 \* dropped]: the strong count, the RefCell's borrow flag, the
                 \* SharedData [id, value], and how often the data was destroyed
    ptr,         \* per handle (a local variable holding an Rc): the allocation
                 \* it points at, 0 when it holds none
    readGuards,  \* per handle: live Ref guards taken through it
    writeGuards, \* per handle: live RefMut guards taken through it
    panic,       \* "none", or the message of the panic being unwound
    out,         \* standard output: the lines printed (main: all of them; the
                 \* free client: the last one)
    latest,      \* the SharedData as the latest new / update_value /
                 \* increment_value left it
    clones,      \* while no handle has been dropped: the handle each Rc::clone
                 \* so far was taken from, in order (<<>> from the first drop on)
    released     \* whether any handle has been dropped yet

vars == <<pc, cells, ptr, readGuards, writeGuards, panic, out, latest, clones, released>>

(* ------------------------------ bounds -------------------------------- *)

\* handles (local variables holding an Rc) the client may have
MaxHandles == 3
\* Ref guards the free client keeps alive at once
MaxReads == 2

(* ----------------------------- constants ------------------------------ *)

I32_MAX == 2147483647
I32_MIN == -I32_MAX - 1

shared_item == 1
component_a_ref == 2
component_b_ref == 3

Handles == 1..MaxHandles

MainId == "ConfigItem"
MainInitialValue == 10
MainUpdateValue == 25

\* What the free client constructs the record with, and what it passes to
\* update_value
Ids == {MainId, "Other"}
InitialValues == {MainInitialValue, I32_MAX}
UpdateValues == {MainInitialValue, MainUpdateValue, I32_MAX}
\* The values the free client calls increment_value at
IncrementFrom == UpdateValues \cup {I32_MIN}

BorrowError == "already mutably borrowed: BorrowError"
BorrowMutError == "already borrowed: BorrowMutError"
OverflowError == "attempt to add with overflow"

(* ------------------------------ helpers ------------------------------- *)

\* f[1] + ... + f[n]
RECURSIVE SumTo(_, _)
SumTo(f, n) == IF n = 0 THEN 0 ELSE f[n] + SumTo(f, n - 1)

Last(s) == s[Len(s)]

Live(h) == ptr[h] \in DOMAIN cells
handles == {h \in Handles : Live(h)}
Cell(h) == cells[ptr[h]]

\* The live guards on allocation c
ReadLeases(c) ==
    SumTo([h \in Handles |-> IF ptr[h] = c THEN readGuards[h] ELSE 0], MaxHandles)
WriteLeases(c) ==
    SumTo([h \in Handles |-> IF ptr[h] = c THEN writeGuards[h] ELSE 0], MaxHandles)

\* One printed line.  kind names the println! that wrote it.
Line(kind, text, old, new) == [kind |-> kind, text |-> text, old |-> old, new |-> new]

\* One step of main.
S(op, h, arg, text) == [op |-> op, h |-> h, arg |-> arg, text |-> text]

(* --------------------------- SharedData ------------------------------- *)

New(id, initial_value) == [id |-> id, value |-> initial_value]

\* Fault variant of UpdatedData: merges the old and the new value (keeps the
\* larger) instead of replacing
UpdatedDataMerged(d, new_value) ==
    [d EXCEPT !.value = IF new_value > @ THEN new_value ELSE @]

\* Fault variant of UpdatedData: the record is rebuilt with an empty id
UpdatedDataFreshRecord(d, new_value) == [id |-> "", value |-> new_value]

\* update_value: the line it prints, and the record it leaves
UpdateLine(d, new_value) == Line("update", d.id, d.value, new_value)
UpdatedData(d, new_value) == [d EXCEPT !.value = new_value]

\* self.value + 1 in i32: a build with overflow checks panics at I32_MAX, one
\* without wraps
Overflows(v) == v = I32_MAX
WrappingSucc(v) == IF v = I32_MAX THEN I32_MIN ELSE v + 1
\* Fault variant of IncrementLine: the new value printed is the old one
IncrementLineStale(d) == Line("increment", d.id, d.value, d.value)
IncrementLine(d) == Line("increment", d.id, d.value, WrappingSucc(d.value))
\* Fault variant of IncrementedData: prints the line and stores nothing
IncrementedDataNotStored(d) == d
IncrementedData(d) == [d EXCEPT !.value = WrappingSucc(d.value)]

DisplayLine(d) == Line("display", d.id, d.value, d.value)

(* ------------------------------- main --------------------------------- *)

CountInitial == "Initial strong count"
CountAfterA == "Strong count after Component A clone"
CountAfterB == "Strong count after Component B clone"
CountFinal == "Final strong count before drops"
CountLabels == {CountInitial, CountAfterA, CountAfterB, CountFinal}

\* Fault variant of ReadThrough: the guard is taken and dropped and display is
\* never called
ReadThroughWithoutDisplay(h) == <<S("borrow", h, 0, ""), S("drop_ref", h, 0, "")>>

\* h.borrow().display();
ReadThrough(h) == <<S("borrow", h, 0, ""), S("display", h, 0, ""), S("drop_ref", h, 0, "")>>

MainProgram ==
    <<S("println", 0, 0, "--- Initial State ---"),
      S("strong_count", shared_item, 0, CountInitial)>>
    \o ReadThrough(shared_item)
    \o <<S("println", 0, 0, "\n--- Component A (gets read access) ---"),
         S("clone", component_a_ref, shared_item, ""),
         S("strong_count", shared_item, 0, CountAfterA)>>
    \o ReadThrough(component_a_ref)
    \o <<S("println", 0, 0, "\n--- Component B (gets write access and modifies) ---"),
         S("clone", component_b_ref, shared_item, ""),
         S("strong_count", shared_item, 0, CountAfterB),
         S("borrow_mut", component_b_ref, 0, ""),
         S("update_value", component_b_ref, MainUpdateValue, ""),
         S("drop_ref_mut", component_b_ref, 0, ""),
         S("borrow_mut", component_b_ref, 0, ""),
         S("increment_value", component_b_ref, 0, ""),
         S("drop_ref_mut", component_b_ref, 0, ""),
         S("println", 0, 0, "Component B finished modifications.")>>
    \o ReadThrough(component_b_ref)
    \o <<S("println", 0, 0, "\n--- Component A (reads again) ---"),
         S("println", 0, 0, "Component A sees updated data:")>>
    \o ReadThrough(component_a_ref)
    \o <<S("println", 0, 0, "\n--- Original Reference (reads again) ---"),
         S("println", 0, 0, "Main's 'shared_item' sees updated data:")>>
    \o ReadThrough(shared_item)
    \o <<S("strong_count", shared_item, 0, CountFinal),
         S("drop", component_b_ref, 0, ""),
         S("drop", component_a_ref, 0, ""),
         S("drop", shared_item, 0, "")>>

\* The client may take this step now: the free client any step, main the
\* step at pc.
Sched(op, h, arg, text) ==
    /\ panic = "none"
    /\ \/ pc = 0
       \/ /\ pc \in 1..Len(MainProgram)
          /\ MainProgram[pc] = S(op, h, arg, text)

Advance == pc' = IF pc = 0 THEN 0 ELSE pc + 1

\* println!: main's output is kept whole; of the free client's only the last
\* line is.
Emit(line) == IF pc = 0 THEN <<line>> ELSE Append(out, line)

(* ------------------------------- Init --------------------------------- *)

\* Rc::new(RefCell::new(value)): a fresh allocation
RcNew(value) == [strong |-> 1, borrow |-> 0, data |-> value, dropped |-> 0]

\* let shared_item = Rc::new(RefCell::new(SharedData::new(id, initial_value)))
Init ==
    /\ \/ pc = 1 /\ latest = New(MainId, MainInitialValue)
       \/ pc = 0 /\ \E id \in Ids, v \in InitialValues : latest = New(id, v)
    /\ cells = <<RcNew(latest)>>
    /\ ptr = [h \in Handles |-> IF h = shared_item THEN 1 ELSE 0]
    /\ readGuards = [h \in Handles |-> 0]
    /\ writeGuards = [h \in Handles |-> 0]
    /\ panic = "none"
    /\ out = <<>>
    /\ clones = <<>>
    /\ released = FALSE

(* ------------------------------- Rc ----------------------------------- *)

\* Fault variant of CloneCount: the count is not raised
CloneCountNotRaised(n) == n

\* Rc::clone: the strong count after it
CloneCount(n) == n + 1

\* Fault variant of RcCloned: a deep copy (a new allocation holding a copy of
\* the data) instead of a second handle on the same allocation
DeepCopied(src) ==
    [cells |-> Append(cells, [strong |-> 1, borrow |-> 0,
                              data |-> cells[ptr[src]].data, dropped |-> 0]),
     ptr |-> Len(cells) + 1]

\* Rc::clone(&src): the allocations after it, and the one the new handle
\* points at (the same one: nothing is copied)
RcCloned(src) ==
    [cells |-> [cells EXCEPT ![ptr[src]].strong = CloneCount(@)], ptr |-> ptr[src]]

\* let dst = Rc::clone(&src)
RcClone(src, dst) ==
    /\ Sched("clone", dst, src, "")
    /\ Live(src) /\ ~Live(dst)
    /\ cells' = RcCloned(src).cells
    /\ ptr' = [ptr EXCEPT ![dst] = RcCloned(src).ptr]
    /\ clones' = IF released THEN clones ELSE Append(clones, src)
    /\ Advance
    /\ UNCHANGED <<readGuards, writeGuards, panic, out, latest, released>>

\* println!("<label>: {}", Rc::strong_count(&h))
StrongCount(h, label) ==
    /\ Sched("strong_count", h, 0, label)
    /\ pc = 0 => label = CountFinal
    /\ Live(h)
    /\ out' = Emit(Line("count", label, Cell(h).strong, Cell(h).strong))
    /\ Advance
    /\ UNCHANGED <<cells, ptr, readGuards, writeGuards, panic, latest, clones, released>>

\* Fault variants of DropsValue: the value is never destroyed (a leak); the
\* value is destroyed by every drop of a handle
DropsValueNever(n) == FALSE
DropsValueAlways(n) == TRUE

\* Drop of an Rc: the strong count after it, and whether the value it owns is
\* destroyed with it
DropCount(n) == n - 1
DropsValue(n) == DropCount(n) = 0

\* Fault variant of DropTurn: nothing is dropped at the end of a scope (the
\* locals are leaked), only while a panic unwinds
DropTurnOnlyUnwinding(op, h) == panic # "none" /\ pc' = pc

\* A drop runs as a step of the client, or while a panic unwinds the stack.
DropTurn(op, h) ==
    \/ Sched(op, h, 0, "") /\ Advance
    \/ panic # "none" /\ pc' = pc

\* Fault variant of RcDrop: a handle can go while a guard taken through it is
\* live (the guard does not borrow the handle)
RcDropUnderGuard(h) ==
    /\ DropTurn("drop", h)
    /\ Live(h)
    /\ cells' = [cells EXCEPT ![ptr[h]].strong = @ - 1,
                              ![ptr[h]].dropped = IF Cell(h).strong = 1 THEN @ + 1 ELSE @]
    /\ ptr' = [ptr EXCEPT ![h] = 0]
    /\ released' = TRUE
    /\ clones' = <<>>
    /\ UNCHANGED <<readGuards, writeGuards, panic, out, latest>>

\* h goes out of scope (or drop(h)).  A guard borrows the handle it was taken
\* through, so the handle outlives its guards.
RcDrop(h) ==
    /\ DropTurn("drop", h)
    /\ Live(h)
    /\ readGuards[h] = 0 /\ writeGuards[h] = 0
    /\ cells' = [cells EXCEPT ![ptr[h]].strong = DropCount(@),
                              ![ptr[h]].dropped =
                                  IF DropsValue(Cell(h).strong) THEN @ + 1 ELSE @]
    /\ ptr' = [ptr EXCEPT ![h] = 0]
    /\ released' = TRUE
    /\ clones' = <<>>
    /\ UNCHANGED <<readGuards, writeGuards, panic, out, latest>>

(* ----------------------------- RefCell -------------------------------- *)

\* Fault variants of CanBorrow and CanBorrowMut: a reader is refused while
\* another reader is live; a writer is admitted among readers
CanBorrowOnlyUnused(flag) == flag = 0
CanBorrowMutAmongReaders(flag) == flag >= 0

\* borrow() succeeds unless a writer holds the cell; borrow_mut() succeeds
\* only when the cell is unused
CanBorrow(flag) == flag + 1 > 0
CanBorrowMut(flag) == flag = 0

\* h.borrow()
Borrow(h) ==
    /\ Sched("borrow", h, 0, "")
    /\ Live(h)
    /\ pc # 0 \/ ReadLeases(ptr[h]) < MaxReads
    /\ IF CanBorrow(Cell(h).borrow)
       THEN /\ cells' = [cells EXCEPT ![ptr[h]].borrow = @ + 1]
            /\ readGuards' = [readGuards EXCEPT ![h] = @ + 1]
            /\ Advance
            /\ UNCHANGED panic
       ELSE /\ panic' = BorrowError
            /\ UNCHANGED <<pc, cells, readGuards>>
    /\ UNCHANGED <<ptr, writeGuards, out, latest, clones, released>>

\* Fault variant of BorrowMut: the flag is marked before it is checked, so
\* a refused borrow_mut leaves the cell marked as written
BorrowMutMarksFirst(h) ==
    /\ Sched("borrow_mut", h, 0, "")
    /\ Live(h)
    /\ cells' = [cells EXCEPT ![ptr[h]].borrow = -1]
    /\ IF Cell(h).borrow = 0
       THEN /\ writeGuards' = [writeGuards EXCEPT ![h] = @ + 1]
            /\ Advance
            /\ UNCHANGED panic
       ELSE /\ panic' = BorrowMutError
            /\ UNCHANGED <<pc, writeGuards>>
    /\ UNCHANGED <<ptr, readGuards, out, latest, clones, released>>

\* h.borrow_mut()
BorrowMut(h) ==
    /\ Sched("borrow_mut", h, 0, "")
    /\ Live(h)
    /\ IF CanBorrowMut(Cell(h).borrow)
       THEN /\ cells' = [cells EXCEPT ![ptr[h]].borrow = @ - 1]
            /\ writeGuards' = [writeGuards EXCEPT ![h] = @ + 1]
            /\ Advance
            /\ UNCHANGED panic
       ELSE /\ panic' = BorrowMutError
            /\ UNCHANGED <<pc, cells, writeGuards>>
    /\ UNCHANGED <<ptr, readGuards, out, latest, clones, released>>

\* Fault variants of ReleaseRead and ReleaseWrite: the flag is not restored
ReleaseReadForgotten(flag) == flag
ReleaseWriteForgotten(flag) == flag

\* The borrow flag after a Ref, and after a RefMut, is dropped
ReleaseRead(flag) == flag - 1
ReleaseWrite(flag) == flag + 1

\* A Ref taken through h is dropped
DropRef(h) ==
    /\ DropTurn("drop_ref", h)
    /\ readGuards[h] > 0
    /\ cells' = [cells EXCEPT ![ptr[h]].borrow = ReleaseRead(@)]
    /\ readGuards' = [readGuards EXCEPT ![h] = @ - 1]
    /\ UNCHANGED <<ptr, writeGuards, panic, out, latest, clones, released>>

\* A RefMut taken through h is dropped
DropRefMut(h) ==
    /\ DropTurn("drop_ref_mut", h)
    /\ writeGuards[h] > 0
    /\ cells' = [cells EXCEPT ![ptr[h]].borrow = ReleaseWrite(@)]
    /\ writeGuards' = [writeGuards EXCEPT ![h] = @ - 1]
    /\ UNCHANGED <<ptr, readGuards, panic, out, latest, clones, released>>

(* ----------------------- calls on the SharedData ---------------------- *)

\* Fault variant of HasMut: a shared guard is enough to mutate
HasMutOrRef(h) == readGuards[h] > 0 \/ writeGuards[h] > 0

\* &mut self is reached through a RefMut, &self through a Ref or a RefMut
HasMut(h) == writeGuards[h] > 0
HasRef(h) == readGuards[h] > 0 \/ writeGuards[h] > 0

\* guard.update_value(new_value)
update_value(h, new_value) ==
    /\ Sched("update_value", h, new_value, "")
    /\ HasMut(h)
    /\ out' = Emit(UpdateLine(Cell(h).data, new_value))
    /\ cells' = [cells EXCEPT ![ptr[h]].data = UpdatedData(@, new_value)]
    /\ latest' = cells'[ptr[h]].data
    /\ Advance
    /\ UNCHANGED <<ptr, readGuards, writeGuards, panic, clones, released>>

\* guard.increment_value()
increment_value(h) ==
    /\ Sched("increment_value", h, 0, "")
    /\ HasMut(h)
    /\ pc # 0 \/ Cell(h).data.value \in IncrementFrom
    /\ \/ /\ Overflows(Cell(h).data.value)
          /\ panic' = OverflowError
          /\ UNCHANGED <<pc, cells, out, latest>>
       \/ /\ out' = Emit(IncrementLine(Cell(h).data))
          /\ cells' = [cells EXCEPT ![ptr[h]].data = IncrementedData(@)]
          /\ latest' = cells'[ptr[h]].data
          /\ Advance
          /\ UNCHANGED panic
    /\ UNCHANGED <<ptr, readGuards, writeGuards, clones, released>>

\* guard.display()
display(h) ==
    /\ Sched("display", h, 0, "")
    /\ HasRef(h)
    /\ out' = Emit(DisplayLine(Cell(h).data))
    /\ Advance
    /\ UNCHANGED <<cells, ptr, readGuards, writeGuards, panic, latest, clones, released>>

\* println!("<text>"): the section headers of main
println ==
    /\ panic = "none"
    /\ pc \in 1..Len(MainProgram)
    /\ MainProgram[pc].op = "println"
    /\ out' = Emit(Line("text", MainProgram[pc].text, 0, 0))
    /\ Advance
    /\ UNCHANGED <<cells, ptr, readGuards, writeGuards, panic, latest, clones, released>>

(* ------------------------------- Next --------------------------------- *)

Next ==
    \/ \E src \in Handles, dst \in Handles : RcClone(src, dst)
    \/ \E h \in Handles, label \in CountLabels : StrongCount(h, label)
    \/ \E h \in Handles : RcDrop(h)
    \/ \E h \in Handles : Borrow(h)
    \/ \E h \in Handles : BorrowMut(h)
    \/ \E h \in Handles : DropRef(h)
    \/ \E h \in Handles : DropRefMut(h)
    \/ \E h \in Handles, v \in UpdateValues : update_value(h, v)
    \/ \E h \in Handles : increment_value(h)
    \/ \E h \in Handles : display(h)
    \/ println

Spec == Init /\ [][Next]_vars

\* The client is sequential code that runs on until it returns or has
\* unwound: a step that can be taken is taken.
FairSpec == Spec /\ WF_vars(Next)

(* ====================================================================== *)
(* Properties                                                             *)
(* ====================================================================== *)

\* The spec's vocabulary, in terms of the model
Allocs == DOMAIN cells
Record == cells[1].data
owner_count == cells[1].strong
Leases(c) == ReadLeases(c) + WriteLeases(c)
LeaseState(c) ==
    IF WriteLeases(c) > 0 THEN "WriteLeased"
    ELSE IF ReadLeases(c) > 0 THEN "ReadLeased" ELSE "Idle"

\* Main's n-th step with operation op on handle h
Pos(op, h, n) ==
    CHOOSE i \in 1..Len(MainProgram) :
        /\ MainProgram[i].op = op /\ MainProgram[i].h = h
        /\ Cardinality({j \in 1..i : MainProgram[j].op = op /\ MainProgram[j].h = h}) = n
\* Main's first drop of a handle
FirstDrop ==
    CHOOSE i \in 1..Len(MainProgram) :
        /\ MainProgram[i].op = "drop"
        /\ \A j \in 1..(i - 1) : MainProgram[j].op # "drop"

\* C1: at every instant at most one write lease is live on the Record, and
\* while a write lease is live no read lease is; the borrow flag agrees with
\* the live guards (Idle 0, ReadLeased(n) n, WriteLeased -1).
C1_ExclusiveWrite ==
    \A c \in Allocs :
        /\ WriteLeases(c) <= 1
        /\ WriteLeases(c) = 1 => ReadLeases(c) = 0
        /\ cells[c].borrow = IF WriteLeases(c) = 1 THEN -1 ELSE ReadLeases(c)

\* A write lease is live and a second borrow_mut has just been refused.
C1_Witness ==
    /\ WriteLeases(1) = 1 /\ ReadLeases(1) = 0
    /\ panic = BorrowMutError

\* C2: borrow_mut fails with BorrowMutError exactly when some lease (read or
\* write) is live and otherwise yields a write guard; borrow fails with
\* BorrowError exactly when a write lease is live and otherwise yields one
\* more read guard (so a second read among readers succeeds).
C2_ConflictExactly ==
    [][\A h \in Handles :
        /\ BorrowMut(h) =>
            /\ panic' = BorrowMutError <=> Leases(ptr[h]) > 0
            /\ panic' = "none" <=> Leases(ptr[h]) = 0
            /\ panic' = "none" =>
                  /\ writeGuards'[h] = writeGuards[h] + 1
                  /\ LeaseState(ptr[h])' = "WriteLeased"
        /\ Borrow(h) =>
            /\ panic' = BorrowError <=> WriteLeases(ptr[h]) > 0
            /\ panic' = "none" <=> WriteLeases(ptr[h]) = 0
            /\ panic' = "none" =>
                  /\ readGuards'[h] = readGuards[h] + 1
                  /\ ReadLeases(ptr[h])' = ReadLeases(ptr[h]) + 1
      ]_vars

\* A borrow_mut has just been refused because read leases (and no write
\* lease) are live.
C2_Witness ==
    /\ panic = BorrowMutError
    /\ ReadLeases(1) = 2 /\ WriteLeases(1) = 0

\* C3: main's run: created as ("ConfigItem", 10) with owner_count 1; 3 after
\* the two clones; 25 after update_value(25) and 26 after increment_value();
\* then component A's display and the original handle's display both show
\* ("ConfigItem", 26); owner_count is 3 when the final count is printed and
\* still 3 right before the first handle is dropped.
C3_EndToEnd ==
    pc >= 1 =>
        LET cloneA == Pos("clone", component_a_ref, 1)
            cloneB == Pos("clone", component_b_ref, 1)
            upd == Pos("update_value", component_b_ref, 1)
            inc == Pos("increment_value", component_b_ref, 1)
            dispA == Pos("display", component_a_ref, 2)
            dispO == Pos("display", shared_item, 2)
            final == Pos("strong_count", shared_item, 4)
            shown == Line("display", "ConfigItem", 26, 26)
        IN  /\ cloneA < cloneB /\ cloneB < upd /\ upd < inc /\ inc < dispA
            /\ dispA < dispO /\ dispO < final /\ final < FirstDrop
            /\ pc = 1 => Record = New("ConfigItem", 10)
            /\ pc <= cloneA => owner_count = 1
            /\ (pc > cloneB /\ pc <= FirstDrop) => owner_count = 3
            /\ (pc > upd /\ pc <= inc) => Record.value = 25
            /\ pc > inc => Record = New("ConfigItem", 26)
            /\ pc = dispA + 1 => Last(out) = shown
            /\ pc = dispO + 1 => Last(out) = shown
            /\ pc = final + 1 => Last(out) = Line("count", CountFinal, 3, 3)
            /\ pc = FirstDrop => ~released /\ panic = "none"

\* Main is about to drop its first handle: three owners, value 26, and the
\* last line printed is the final count.
C3_Witness ==
    /\ pc = FirstDrop
    /\ owner_count = 3 /\ Record.value = 26
    /\ Last(out).kind = "count"

\* C4: while no handle has been dropped, the strong count after k clones is
\* k + 1, whichever live handle each clone was taken from.
C4_CountAfterClones ==
    ~released => /\ owner_count = Len(clones) + 1
                 /\ Cardinality(handles) = Len(clones) + 1

\* Two clones, the second taken from a clone and not from the first handle.
C4_Witness ==
    /\ ~released /\ Len(clones) = 2
    /\ clones[2] # shared_item
    /\ owner_count = 3

\* C5: every live handle points at the one allocation and so reads the
\* record as the latest mutation left it; a display line shows that record.
C5_SharedInstance ==
    /\ \A h \in handles : ptr[h] = 1 /\ Cell(h).data = latest
    /\ (out # <<>> /\ Last(out).kind = "display") =>
           Last(out) = DisplayLine(latest)

\* Main: component B has mutated the record and the original handle has just
\* displayed it.
C5_Witness ==
    /\ pc = Pos("display", shared_item, 2) + 1
    /\ Last(out) = Line("display", "ConfigItem", 26, 26)
    /\ latest.value # MainInitialValue

\* C6: the record is destroyed in the step that takes the strong count from
\* 1 to 0 and in no other step, once per such step; a strong count of 0
\* stays 0, and nothing is destroyed after that.
C6_DestroyedOnce ==
    [][\A c \in Allocs :
        /\ c \in DOMAIN cells'
        /\ cells'[c].dropped # cells[c].dropped
               <=> (cells[c].strong = 1 /\ cells'[c].strong = 0)
        /\ cells'[c].dropped \in {cells[c].dropped, cells[c].dropped + 1}
        /\ cells[c].strong = 0 =>
               cells'[c].strong = 0 /\ cells'[c].dropped = cells[c].dropped
      ]_vars
    /\ [](\A c \in Allocs : cells[c].dropped = IF cells[c].strong = 0 THEN 1 ELSE 0)

\* The last handle is gone and the record has been destroyed.
C6_Witness ==
    /\ owner_count = 0 /\ cells[1].dropped = 1
    /\ handles = {}

\* C7: a step that changes the record's value is taken in lease state
\* WriteLeased (one write guard, no read guard), and leaves the id alone;
\* display runs under a read or a write guard and changes no record.
C7_MutationUnderWriteLease ==
    [][/\ \A c \in Allocs :
            cells'[c].data # cells[c].data =>
                /\ LeaseState(c) = "WriteLeased" /\ WriteLeases(c) = 1
                /\ ReadLeases(c) = 0
                /\ LeaseState(c)' = "WriteLeased"
       /\ \A h \in Handles :
            display(h) =>
                /\ LeaseState(ptr[h]) \in {"ReadLeased", "WriteLeased"}
                /\ cells' = cells
      ]_vars

\* Main has just run update_value(25) and still holds the write guard.
C7_Witness ==
    /\ pc = Pos("update_value", component_b_ref, 1) + 1
    /\ LeaseState(1) = "WriteLeased"
    /\ Record.value = MainUpdateValue

\* C8: a live guard is dropped at the end of its statement in main, can be
\* dropped at any time by the free client, and can be dropped while a
\* panic unwinds; the step that drops the last live guard (the write guard, or the last read guard)
\* leaves the lease state Idle with the flag at 0, where both borrow and
\* borrow_mut succeed.
C8_ReleaseRestoresIdle ==
    [][\A c \in Allocs :
        LET before == Leases(c)
            reads == ReadLeases(c)'
            writes == WriteLeases(c)'
        IN  reads + writes < before =>
              /\ cells'[c].borrow = IF writes = 1 THEN -1 ELSE reads
              /\ reads + writes = 0 =>
                    /\ LeaseState(c)' = "Idle"
                    /\ cells'[c].borrow = 0
                    /\ CanBorrow(cells'[c].borrow) /\ CanBorrowMut(cells'[c].borrow)
      ]_vars
    /\ [](\A h \in Handles :
            /\ (readGuards[h] > 0 /\ (pc = 0 \/ panic # "none")) => ENABLED DropRef(h)
            /\ (writeGuards[h] > 0 /\ (pc = 0 \/ panic # "none")) => ENABLED DropRefMut(h)
            /\ (readGuards[h] > 0 /\ pc >= 1 /\ panic = "none") =>
                   \E k \in {pc, pc + 1} : MainProgram[k] = S("drop_ref", h, 0, "")
            /\ (writeGuards[h] > 0 /\ pc >= 1 /\ panic = "none") =>
                   \E k \in {pc, pc + 1} : MainProgram[k] = S("drop_ref_mut", h, 0, ""))

\* increment_value panicked under a write guard, and the unwinding has
\* dropped the guard: the cell is idle again while handles are still live.
C8_Witness ==
    /\ panic = OverflowError
    /\ Leases(1) = 0 /\ cells[1].borrow = 0
    /\ handles # {}

\* C9: a conflicting borrow or borrow_mut panics in the very step of the
\* attempt and changes nothing else (flag, guards, record, strong count,
\* handles, output); while a panic unwinds no lease is acquired and nothing
\* is mutated or printed.
C9_FailedAcquireChangesNothing ==
    [][/\ \A h \in Handles :
            \/ Borrow(h) /\ WriteLeases(ptr[h]) > 0
            \/ BorrowMut(h) /\ Leases(ptr[h]) > 0
            => /\ panic' \in {BorrowError, BorrowMutError}
               /\ UNCHANGED <<pc, cells, ptr, readGuards, writeGuards, out, latest>>
       /\ panic # "none" =>
            /\ panic' = panic
            /\ \A h \in Handles : /\ readGuards'[h] <= readGuards[h]
                                  /\ writeGuards'[h] <= writeGuards[h]
            /\ \A c \in Allocs : cells'[c].data = cells[c].data
            /\ out' = out
      ]_vars

\* A borrow has just been refused while a write lease is live, and the
\* write lease, the record and the three owners are as they were.
C9_Witness ==
    /\ panic = BorrowError
    /\ WriteLeases(1) = 1 /\ cells[1].borrow = -1
    /\ owner_count = 3 /\ Record = latest

\* C10: update_value(v) leaves value = v whatever the value was before (the
\* last write wins), and prints the value held before the call as the old
\* value and v as the new one.
C10_LastWriteWins ==
    [][\A h \in Handles, v \in UpdateValues :
        update_value(h, v) =>
            /\ cells'[ptr[h]].data = New(Cell(h).data.id, v)
            /\ Last(out') = Line("update", Cell(h).data.id, Cell(h).data.value, v)
      ]_vars
    /\ []((out # <<>> /\ Last(out).kind = "update") =>
            /\ Record.value = Last(out).new
            /\ latest.value = Last(out).new)

\* The free client has called update_value(25) and then update_value(10):
\* 25 is not an initial value of the free client, so it was written by a call.
C10_Witness ==
    /\ pc = 0
    /\ out = <<Line("update", Record.id, MainUpdateValue, MainInitialValue)>>
    /\ Record.value = MainInitialValue

\* C11: a completed increment_value leaves the record as update_value(value
\* + 1) would (value + 1 in i32, as both compute it) and prints the old and
\* the new value update_value(value + 1) would print; the new value printed
\* is the value stored.  Where value + 1 overflows under overflow checks it
\* panics before printing or storing anything, as evaluating the argument of
\* update_value(value + 1) would.
C11_IncrementIsUpdateByOne ==
    [][\A h \in Handles :
        increment_value(h) =>
            LET d == Cell(h).data
                next == WrappingSucc(d.value)
                line == Last(out')
            IN  IF panic' = "none"
                THEN /\ cells' = [cells EXCEPT ![ptr[h]].data = UpdatedData(d, next)]
                     /\ line.kind = "increment"
                     /\ line.text = UpdateLine(d, next).text
                     /\ line.old = UpdateLine(d, next).old
                     /\ line.new = UpdateLine(d, next).new
                     /\ line.new = cells'[ptr[h]].data.value
                ELSE /\ Overflows(d.value) /\ panic' = OverflowError
                     /\ cells' = cells /\ out' = out
      ]_vars

\* Main has just run increment_value on 25: the line says 25 to 26 and the
\* record holds 26.
C11_Witness ==
    /\ pc = Pos("increment_value", component_b_ref, 1) + 1
    /\ Last(out) = Line("increment", "ConfigItem", 25, 26)
    /\ Record.value = 26

\* C12: no step changes a record's id, so the id is the one given to
\* SharedData::new ("ConfigItem" in main) whatever has been done to value.
C12_IdFixed ==
    [][\A c \in Allocs : c \in DOMAIN cells' /\ cells'[c].data.id = cells[c].data.id]_vars
    /\ [](/\ Record.id \in Ids /\ latest.id = Record.id
          /\ pc >= 1 => Record.id = "ConfigItem"
          /\ \A i \in 1..Len(out) :
                out[i].kind \in {"display", "update", "increment"} => out[i].text = Record.id)

\* The free client's record "Other" has been set to 25 and then incremented:
\* value has changed twice, and the id is the one it was constructed with.
C12_Witness ==
    /\ pc = 0
    /\ out = <<Line("increment", "Other", MainUpdateValue, MainUpdateValue + 1)>>
    /\ Record = New("Other", MainUpdateValue + 1)

\* The lines of main's output, by kind
Header(text) == Line("text", text, 0, 0)
Count(label, n) == Line("count", label, n, n)
Shown(value) == Line("display", "ConfigItem", value, value)
IsPrefix(s, t) == Len(s) <= Len(t) /\ s = SubSeq(t, 1, Len(s))

\* Main's output in the stated order, with bSection standing for what
\* component B's section holds after its header and its post-clone count
OutputWith(bSection) ==
    <<Header("--- Initial State ---"), Count(CountInitial, 1), Shown(10),
      Header("\n--- Component A (gets read access) ---"), Count(CountAfterA, 2), Shown(10),
      Header("\n--- Component B (gets write access and modifies) ---"), Count(CountAfterB, 3)>>
    \o bSection
    \o <<Line("update", "ConfigItem", 10, 25), Line("increment", "ConfigItem", 25, 26),
         Header("Component B finished modifications."), Shown(26),
         Header("\n--- Component A (reads again) ---"),
         Header("Component A sees updated data:"), Shown(26),
         Header("\n--- Original Reference (reads again) ---"),
         Header("Main's 'shared_item' sees updated data:"), Shown(26),
         Count(CountFinal, 3)>>

\* Main prints `expected`, in this order, and has printed all of it before
\* any owner is released.
PrintsInOrder(expected) ==
    pc >= 1 =>
        /\ IsPrefix(out, expected)
        /\ released => out = expected
        /\ pc >= FirstDrop => out = expected

\* C13 (as amended): main prints the initial header, count and display; for
\* component A a header, the post-clone count and a display; for component B
\* a header and the post-clone count only; then the update and increment
\* lines; then each owner's display of the new value, each after its header
\* lines; and last the final count, before any owner is released.
C13_OutputOrder == PrintsInOrder(OutputWith(<<>>))

\* Main has printed its whole output and no owner has been released yet.
C13_Witness ==
    /\ pc = FirstDrop /\ ~released
    /\ out = OutputWith(<<>>)

\* C13 (as stated): as above, but with a display in the section of each
\* cloned owner, component B's too.
C13_AsStated == PrintsInOrder(OutputWith(<<Shown(10)>>))

\* Main has returned
MainDone == pc = Len(MainProgram) + 1

\* C14: every run of main ends with its three handles released, the strong
\* count at 0 and the record destroyed.
C14_MainReleasesAll ==
    (pc >= 1) ~> (/\ MainDone
                  /\ \A h \in {shared_item, component_a_ref, component_b_ref} : ~Live(h)
                  /\ owner_count = 0 /\ cells[1].dropped = 1)

\* Main has returned: no handle is left and the record is destroyed.
C14_Witness ==
    /\ MainDone /\ handles = {}
    /\ owner_count = 0 /\ cells[1].dropped = 1
    /\ Len(out) = Len(OutputWith(<<>>))

\* The steps of main that run inside a statement, under the guard the
\* statement took
InsideStatement == {"display", "update_value", "increment_value", "drop_ref", "drop_ref_mut"}

\* C15: in main no borrow or borrow_mut ever conflicts: each is made in
\* lease state Idle, at most one lease is live at a time, a live lease
\* belongs to the statement being executed and is gone when the next
\* statement begins, and main never panics.
C15_MainNeverConflicts ==
    pc >= 1 =>
        /\ panic = "none"
        /\ Leases(1) <= 1
        /\ Leases(1) = 1 => (~MainDone /\ MainProgram[pc].op \in InsideStatement)
        /\ (MainDone \/ MainProgram[pc].op \notin InsideStatement) =>
               (LeaseState(1) = "Idle" /\ cells[1].borrow = 0)
        /\ (~MainDone /\ MainProgram[pc].op \in {"borrow", "borrow_mut"}) =>
               (CanBorrow(cells[1].borrow) /\ CanBorrowMut(cells[1].borrow))

\* Main holds its second write lease (the first has been released) and is
\* about to drop it.
C15_Witness ==
    /\ pc = Pos("drop_ref_mut", component_b_ref, 2)
    /\ LeaseState(1) = "WriteLeased" /\ Leases(1) = 1
    /\ panic = "none"

\* C16 (as stated): increment_value never fails under a write guard, and
\* leaves value = old value + 1 for every old value, i32::MAX included.
C16_IncrementInfallible ==
    /\ panic # OverflowError
    /\ (out # <<>> /\ Last(out).kind = "increment") =>
           /\ Record.value > Last(out).old
           /\ Record.value - Last(out).old = 1

\* C17: Rc::clone raises the strong count of the one allocation by exactly 1
\* and changes nothing else: no allocation is added, the new handle points at
\* the allocation of the handle it was taken from, and id, value, borrow
\* flag, guards and output are as before; it never panics, and the free
\* client can take it from any live handle.
C17_CloneOnlyCounts ==
    [][\A src \in Handles, dst \in Handles :
        RcClone(src, dst) =>
            /\ cells' = [cells EXCEPT ![ptr[src]].strong = @ + 1]
            /\ ptr' = [ptr EXCEPT ![dst] = ptr[src]]
            /\ LeaseState(ptr[src])' = LeaseState(ptr[src])
            /\ panic' = "none"
            /\ UNCHANGED <<readGuards, writeGuards, out, latest>>
      ]_vars
    /\ [](\A src \in Handles, dst \in Handles :
            (pc = 0 /\ panic = "none" /\ Live(src) /\ ~Live(dst)) =>
                ENABLED RcClone(src, dst))

\* Main has just cloned component_b_ref: one allocation, three owners, the
\* record untouched and the cell idle.
C17_Witness ==
    /\ pc = Pos("clone", component_b_ref, 1) + 1
    /\ Len(cells) = 1 /\ owner_count = 3
    /\ Record = New("ConfigItem", 10) /\ LeaseState(1) = "Idle"

\* C18: Rc::strong_count and display change nothing but the output (count,
\* borrow flag, guards, id and value stay); the borrow() that display is
\* called under adds 1 to the flag and the drop of its guard takes 1 off, so
\* after h.borrow().display() the lease state is what it was before.
C18_ObserversChangeNothing ==
    [][/\ \A h \in Handles, label \in CountLabels :
            StrongCount(h, label) =>
                /\ UNCHANGED <<cells, ptr, readGuards, writeGuards, latest, panic>>
                /\ Last(out') = Count(label, Cell(h).strong)
       /\ \A h \in Handles :
            /\ display(h) =>
                /\ UNCHANGED <<cells, ptr, readGuards, writeGuards, latest, panic>>
                /\ Last(out').kind = "display"
            /\ (Borrow(h) /\ panic' = "none") =>
                /\ cells' = [cells EXCEPT ![ptr[h]].borrow = @ + 1]
                /\ ReadLeases(ptr[h])' = ReadLeases(ptr[h]) + 1
            /\ DropRef(h) =>
                /\ cells' = [cells EXCEPT ![ptr[h]].borrow = @ - 1]
                /\ ReadLeases(ptr[h])' = ReadLeases(ptr[h]) - 1
      ]_vars
    /\ []((pc > 1 /\ MainProgram[pc - 1].op = "drop_ref") =>
            (LeaseState(1) = "Idle" /\ cells[1].borrow = 0))

\* Main has finished its first shared_item.borrow().display(): the line is
\* printed and count, record and lease state are as before the statement.
C18_Witness ==
    /\ pc = Pos("drop_ref", shared_item, 1) + 1
    /\ Last(out) = Shown(10)
    /\ owner_count = 1 /\ Record = New("ConfigItem", 10)
    /\ LeaseState(1) = "Idle" /\ cells[1].borrow = 0

\* C19: in main no handle is dropped before the final count is printed; at
\* the end of main the handles go in reverse order of declaration
\* (component_b_ref, component_a_ref, shared_item), the strong count going
\* 3, 2, 1, 0, and the record is destroyed by the drop of shared_item and by
\* no earlier one.
C19_ReverseOrderRelease ==
    [](pc >= 1 =>
        /\ MainProgram[FirstDrop] = S("drop", component_b_ref, 0, "")
        /\ MainProgram[FirstDrop + 1] = S("drop", component_a_ref, 0, "")
        /\ MainProgram[FirstDrop + 2] = S("drop", shared_item, 0, "")
        /\ FirstDrop + 2 = Len(MainProgram)
        /\ FirstDrop = Pos("strong_count", shared_item, 4) + 1
        /\ pc <= FirstDrop => (~released /\ cells[1].dropped = 0)
        /\ pc = FirstDrop =>
              (owner_count = 3
               /\ handles = {shared_item, component_a_ref, component_b_ref})
        /\ pc = FirstDrop + 1 =>
              (owner_count = 2 /\ handles = {shared_item, component_a_ref}
               /\ cells[1].dropped = 0)
        /\ pc = FirstDrop + 2 =>
              (owner_count = 1 /\ handles = {shared_item} /\ cells[1].dropped = 0)
        /\ pc = FirstDrop + 3 =>
              (owner_count = 0 /\ handles = {} /\ cells[1].dropped = 1))
    /\ [][pc >= 1 =>
            /\ pc < FirstDrop => owner_count' >= owner_count
            /\ cells'[1].dropped # cells[1].dropped => RcDrop(shared_item)
         ]_vars

\* Main has dropped component_b_ref and component_a_ref: one owner is left
\* and the record is still there.
C19_Witness ==
    /\ pc = FirstDrop + 2
    /\ owner_count = 1 /\ handles = {shared_item}
    /\ cells[1].dropped = 0 /\ Record.value = 26

\* C20: while a lease is live, and in every step that borrows, reads,
\* mutates or counts, the handle used is live, the strong count is at least
\* 1 and the record is not destroyed; the record is destroyed only in lease
\* state Idle, a handle is dropped only when no guard taken through it is
\* live, and in main every drop of a handle happens in lease state Idle.
C20_AliveWhileUsed ==
    [](/\ \A c \in Allocs :
            Leases(c) > 0 => (cells[c].strong >= 1 /\ cells[c].dropped = 0)
       /\ \A h \in handles : Cell(h).strong >= 1 /\ Cell(h).dropped = 0
       /\ \A h \in Handles : (readGuards[h] > 0 \/ writeGuards[h] > 0) => Live(h))
    /\ [][/\ \A h \in Handles :
               /\ \/ Borrow(h) \/ BorrowMut(h) \/ display(h) \/ increment_value(h)
                  \/ \E v \in UpdateValues : update_value(h, v)
                  \/ \E label \in CountLabels : StrongCount(h, label)
                  => (Live(h) /\ Cell(h).strong >= 1 /\ Cell(h).dropped = 0)
               /\ RcDrop(h) => (readGuards[h] = 0 /\ writeGuards[h] = 0)
          /\ \A c \in Allocs :
               cells'[c].dropped # cells[c].dropped =>
                   (LeaseState(c) = "Idle" /\ cells[c].borrow = 0)
          /\ (pc >= 1 /\ owner_count' < owner_count) =>
               (LeaseState(1) = "Idle" /\ cells[1].borrow = 0)
         ]_vars

\* Main has dropped its first handle, in lease state Idle, and the record is
\* alive under the two owners left.
C20_Witness ==
    /\ pc = FirstDrop + 1
    /\ LeaseState(1) = "Idle"
    /\ owner_count = 2 /\ cells[1].dropped = 0

\* A caller other than main can drop one owner while a lease taken through
\* another owner is live: the state the free client reaches by doing so.
OwnerReleasedUnderLease ==
    /\ pc = 0 /\ released
    /\ Leases(1) > 0 /\ owner_count >= 1

====
